---- MODULE Spec2Model ----
(***************************************************************************)
(* Model of pnp.py: the main script, the PNP constructor, init_pnp,        *)
(* run_pnp, sample_loop and denoise_step.  Strings that the code takes     *)
(* apart (paths) are sequences of one-character strings; tensors are       *)
(* integers with exact arithmetic; the pretrained UNet is an external      *)
(* function whose output is chosen nondeterministically.                   *)
(***************************************************************************)
EXTENDS Integers, Sequences, FiniteSets, TLC

\* ------------------------------------------------------------------ bounds
MaxSteps == 3        \* largest n_timesteps explored
FracDen == 2         \* pnp_f_t and pnp_attn_t are multiples of 1/FracDen
MaxFracNum == 3      \* largest numerator of those fractions
MaxGuidance == 2     \* largest guidance_scale explored
MaxPred == 1         \* UNet predictions range over 0..MaxPred
LatMod == 3          \* latents range over 0..LatMod-1

\* ------------------------------------------------- scheduler configuration
num_train_timesteps == 1000
steps_offset == 1

\* --------------------------------------------------------------- helpers
Min(a, b) == IF a <= b THEN a ELSE b
Max(a, b) == IF a >= b THEN a ELSE b

\* str.rfind(c) + 1: the 1-based position of the last c in s, 0 when absent
RECURSIVE RFindFrom(_, _, _)
RFindFrom(s, c, j) ==
    IF j = 0 THEN 0 ELSE IF s[j] = c THEN j ELSE RFindFrom(s, c, j - 1)
RFind(s, c) == RFindFrom(s, c, Len(s))

\* Python's int(): truncation toward zero of a / b, b > 0
PyInt(a, b) == IF a >= 0 THEN a \div b ELSE -((-a) \div b)

\* Python's seq[:k]
PySliceTo(s, k) ==
    LET stop == IF k >= 0 THEN Min(k, Len(s)) ELSE Max(Len(s) + k, 0)
    IN SubSeq(s, 1, stop)

Range(s) == {s[j] : j \in 1..Len(s)}

\* decimal formatting of a non-negative integer, as f'{t}' does for a 0-d tensor
RECURSIVE Digits(_)
Digits(n) ==
    LET d == <<"0", "1", "2", "3", "4", "5", "6", "7", "8", "9">>[(n % 10) + 1]
    IN IF n < 10 THEN <<d>> ELSE Digits(n \div 10) \o <<d>>

\* os.path.basename
basename(p) == SubSeq(p, RFind(p, "/") + 1, Len(p))

\* os.path.splitext(p)[0]: cut at the last dot that follows a non-dot
\* character of the last path component
splitext0(p) ==
    LET sep == RFind(p, "/")
        dot == RFind(p, ".")
    IN IF dot > sep /\ \E j \in (sep + 1)..(dot - 1) : p[j] # "."
       THEN SubSeq(p, 1, dot - 1)
       ELSE p

\* os.path.join(a, b)
path_join(a, b) ==
    IF Len(b) > 0 /\ b[1] = "/" THEN b
    ELSE IF Len(a) = 0 \/ a[Len(a)] = "/" THEN a \o b
    ELSE a \o <<"/">> \o b

\* f'noisy_latents_{t}.pt'
latent_file(t) == <<"noisy_latents_">> \o Digits(t) \o <<".pt">>

\* DDIMScheduler.set_timesteps, "leading" spacing
set_timesteps(n) ==
    [j \in 1..n |-> (n - j) * (num_train_timesteps \div n) + steps_offset]

\* DDIMScheduler.step(noise_pred, t, x)['prev_sample']
scheduler_step(noise_pred, t, x) == (x + noise_pred + t) % LatMod

\* pipe.encode_prompt on one text
encode_prompt(text) == [embeds_of |-> text]

\* yaml.dump: the mapping written as key/value lines, keys sorted
SortedKeys ==
    <<"device", "guidance_scale", "image_path", "latents_path", "n_timesteps",
      "negative_prompt", "output_path", "pnp_attn_t", "pnp_f_t", "prompt",
      "sd_version", "seed">>
yaml_dump(cfg) == [j \in 1..Len(SortedKeys) |-> <<SortedKeys[j], cfg[SortedKeys[j]]>>]

\* --------------------------------------------------------- configurations
SupportedVersions == {"2.1", "2.0", "1.5", "xl-base"}
Versions == SupportedVersions \cup {"3.0"}

ImagePaths ==
    { <<"d", "/", "a", ".", "p">>,
      <<"a", ".", "b", ".", "p">>,
      <<"d", ".", "x", "/", "a">> }

LatentsPaths == {<<"l">>}

Fractions == (-1)..MaxFracNum

\* torch.load: the tensor stored under a path (the disk holds one tensor per
\* path; it varies with the path's length and the last digit of its stem)
torch_load(p) ==
    (Len(p) + (IF Len(p) > 1 /\ p[Len(p) - 1] \in {"1", "4", "7"} THEN 1 ELSE 0)) % LatMod

AllConfigs ==
    [ device : {"cuda"},
      seed : {1},
      sd_version : Versions,
      n_timesteps : 1..MaxSteps,
      pnp_f_t : Fractions,
      pnp_attn_t : Fractions,
      guidance_scale : 0..MaxGuidance,
      latents_path : LatentsPaths,
      image_path : ImagePaths,
      prompt : {"horse"},
      negative_prompt : {"ugly"},
      output_path : {<<"o">>} ]

\* the explored configuration files: every schedule length with every pair
\* of injection fractions, with every image path, with every guidance scale,
\* and every version
DefaultImage == <<"d", "/", "a", ".", "p">>
VaryInjection(c) ==
    c.sd_version = "xl-base" /\ c.image_path = DefaultImage /\ c.guidance_scale = 1
VaryImage(c) ==
    /\ c.sd_version = "xl-base" /\ c.guidance_scale = 1
    /\ c.pnp_f_t = 1 /\ c.pnp_attn_t = 1
VaryGuidance(c) ==
    /\ c.sd_version = "xl-base" /\ c.image_path = DefaultImage
    /\ c.pnp_f_t = 1 /\ c.pnp_attn_t = 1
VaryVersion(c) ==
    /\ c.image_path = DefaultImage /\ c.guidance_scale = 1
    /\ c.pnp_f_t = 1 /\ c.pnp_attn_t = 1 /\ c.n_timesteps = MaxSteps
Configs ==
    {c \in AllConfigs : VaryInjection(c) \/ VaryImage(c) \/ VaryGuidance(c) \/ VaryVersion(c)}

NoConfig == [loaded |-> FALSE]
None == "None"
NoLatent == -1
NoTime == -1
NoSource == [dir |-> <<>>, path |-> <<>>, data |-> NoLatent]
NoOutput == [sample |-> <<>>, conv_injected |-> FALSE, attn_injected |-> FALSE]

VARIABLES
    yaml_file,      \* content of the file at --config_path
    config,         \* the mapping held by the main script and by PNP.config
    config_yaml,    \* content written to <output_path>/config.yaml
    pc,             \* position of the script
    model_key,
    timesteps,      \* scheduler.timesteps
    eps_path,       \* file read by get_data
    eps,            \* self.eps
    text_embeds,
    pnp_guidance_embeds,
    hooks,          \* hooks registered on the UNet, in order of registration
    qk_injection_t, \* arguments of init_pnp
    conv_injection_t,
    qk_injection_timesteps,
    conv_injection_timesteps,
    i,              \* loop index of sample_loop
    t,              \* loop timestep
    x,              \* loop latent
    source,         \* source latents loaded in the current step
    module_t,       \* timestep held by the injection modules
    latent_model_input,
    text_embed_input,
    unet_out,       \* the UNet's prediction and what its hooks did
    noise_pred,     \* the guided prediction handed to scheduler.step
    calls,          \* completed denoise steps
    decoded,        \* number of decode_latent calls
    saved           \* output files written, in order

vars ==
    <<yaml_file, config, config_yaml, pc, model_key, timesteps, eps_path, eps,
      text_embeds, pnp_guidance_embeds, hooks, qk_injection_t, conv_injection_t,
      qk_injection_timesteps, conv_injection_timesteps, i, t, x, source, module_t, latent_model_input,
      text_embed_input, unet_out, noise_pred, calls, decoded, saved>>

main_vars == <<yaml_file, config, config_yaml>>
init_vars == <<model_key, timesteps, eps_path, eps, text_embeds, pnp_guidance_embeds>>
pnp_vars == <<hooks, qk_injection_t, conv_injection_t, qk_injection_timesteps,
             conv_injection_timesteps>>
step_vars == <<source, module_t, latent_model_input, text_embed_input, unet_out, noise_pred>>
loop_vars == <<i, t, x, calls>>
out_vars == <<decoded, saved>>

Init ==
    /\ yaml_file \in Configs
    /\ config = NoConfig
    /\ config_yaml = <<>>
    /\ pc = "main"
    /\ model_key = None
    /\ timesteps = <<>>
    /\ eps_path = <<>>
    /\ eps = NoLatent
    /\ text_embeds = <<>>
    /\ pnp_guidance_embeds = <<>>
    /\ hooks = <<>>
    /\ qk_injection_t = 0
    /\ conv_injection_t = 0
    /\ qk_injection_timesteps = <<>>
    /\ conv_injection_timesteps = <<>>
    /\ i = 0
    /\ t = NoTime
    /\ x = NoLatent
    /\ source = NoSource
    /\ module_t = NoTime
    /\ latent_model_input = <<>>
    /\ text_embed_input = <<>>
    /\ unet_out = NoOutput
    /\ noise_pred = 0
    /\ calls = <<>>
    /\ decoded = 0
    /\ saved = <<>>

\* ------------------------------------------------------------ main script
\* yaml.safe_load of the configuration file
main_load ==
    /\ pc = "main"
    /\ config' = yaml_file
    /\ pc' = "loaded"
    /\ UNCHANGED <<yaml_file, config_yaml, init_vars, pnp_vars, step_vars, loop_vars, out_vars>>

\* makedirs, the dump of the configuration, seed_everything, print
main_prepare ==
    /\ pc = "loaded"
    /\ config_yaml' = yaml_dump(config)
    /\ pc' = "construct"
    /\ UNCHANGED <<yaml_file, config, init_vars, pnp_vars, step_vars, loop_vars, out_vars>>

\* ---------------------------------------------------------- PNP.__init__
ModelKey(sd_version) ==
    IF sd_version = "2.1" THEN "stabilityai/stable-diffusion-2-1-base"
    ELSE IF sd_version = "2.0" THEN "stabilityai/stable-diffusion-2-base"
    ELSE IF sd_version = "1.5" THEN "/home/heyi/llm/stable-diffusion-v1-5"
    ELSE IF sd_version = "xl-base" THEN "/home/heyi/llm/stable-diffusion-xl-base-1.0/"
    ELSE None

\* the version dispatch without its else branch
PNP_init_version_no_raise ==
    /\ pc = "construct"
    /\ model_key' = ModelKey(config.sd_version)
    /\ pc' = "init_models"
    /\ UNCHANGED <<main_vars, timesteps, eps_path, eps, text_embeds, pnp_guidance_embeds,
                   pnp_vars, step_vars, loop_vars, out_vars>>

\* the version dispatch; an unsupported version raises ValueError
PNP_init_version ==
    /\ pc = "construct"
    /\ model_key' = ModelKey(config.sd_version)
    /\ pc' = IF ModelKey(config.sd_version) = None THEN "ValueError" ELSE "init_models"
    /\ UNCHANGED <<main_vars, timesteps, eps_path, eps, text_embeds, pnp_guidance_embeds,
                   pnp_vars, step_vars, loop_vars, out_vars>>

\* the pipeline and the scheduler are created, the timesteps set
PNP_init_models ==
    /\ pc = "init_models"
    /\ timesteps' = set_timesteps(config.n_timesteps)
    /\ pc' = "init_data"
    /\ UNCHANGED <<main_vars, model_key, eps_path, eps, text_embeds, pnp_guidance_embeds,
                   pnp_vars, step_vars, loop_vars, out_vars>>

\* the per-image directory of cached latents
latents_dir(cfg) == path_join(cfg.latents_path, splitext0(basename(cfg.image_path)))

\* get_data reading the latent of the last timestep
get_data_path_last(cfg, ts) == path_join(latents_dir(cfg), latent_file(ts[Len(ts)]))

\* get_data: the path of the initial noisy latent
get_data_path(cfg, ts) == path_join(latents_dir(cfg), latent_file(ts[1]))

PNP_init_data ==
    /\ pc = "init_data"
    /\ eps_path' = get_data_path(config, timesteps)
    /\ eps' = torch_load(get_data_path(config, timesteps))
    /\ pc' = "init_embeds"
    /\ UNCHANGED <<main_vars, model_key, timesteps, text_embeds, pnp_guidance_embeds,
                   pnp_vars, step_vars, loop_vars, out_vars>>

\* get_text_embeds_xl: cat([negative_prompt_embeds, prompt_embeds])
get_text_embeds_xl(prompt, negative_prompt) ==
    <<encode_prompt(negative_prompt), encode_prompt(prompt)>>

\* tensor.chunk(2)[0] of a two-entry batch
chunk2_first(batch) == SubSeq(batch, 1, Len(batch) \div 2)

PNP_init_embeds ==
    /\ pc = "init_embeds"
    /\ text_embeds' = get_text_embeds_xl(config.prompt, config.negative_prompt)
    /\ pnp_guidance_embeds' = chunk2_first(get_text_embeds_xl("", ""))
    /\ pc' = "run_pnp"
    /\ UNCHANGED <<main_vars, model_key, timesteps, eps_path, eps,
                   pnp_vars, step_vars, loop_vars, out_vars>>

\* ------------------------------------------------------- run_pnp, init_pnp
\* int(n_timesteps * fraction)
injection_count(n, frac) == PyInt(n * frac, FracDen)

\* timesteps[:k] without the guard on the sign of k
injection_timesteps_unguarded(ts, k) == PySliceTo(ts, k)

\* timesteps[:k] if k >= 0 else []
injection_timesteps(ts, k) == IF k >= 0 THEN PySliceTo(ts, k) ELSE <<>>

\* each hook registered with the other hook's schedule
registrations_swapped_schedules(qk, conv) ==
    << [kind |-> "attention", injection_schedule |-> conv],
       [kind |-> "conv", injection_schedule |-> qk] >>

\* the two hooks registered in the opposite order
registrations_conv_first(qk, conv) ==
    << [kind |-> "conv", injection_schedule |-> conv],
       [kind |-> "attention", injection_schedule |-> qk] >>

\* the hooks init_pnp registers, in order
registrations(qk, conv) ==
    << [kind |-> "attention", injection_schedule |-> qk],
       [kind |-> "conv", injection_schedule |-> conv] >>

\* run_pnp storing the computed counts back into the configuration
run_pnp_writes_config ==
    /\ pc = "run_pnp"
    /\ LET pnp_f_t == injection_count(config.n_timesteps, config.pnp_f_t)
           pnp_attn_t == injection_count(config.n_timesteps, config.pnp_attn_t)
           qk == injection_timesteps(timesteps, pnp_attn_t)
           conv == injection_timesteps(timesteps, pnp_f_t)
       IN /\ conv_injection_t' = pnp_f_t
          /\ qk_injection_t' = pnp_attn_t
          /\ qk_injection_timesteps' = qk
          /\ conv_injection_timesteps' = conv
          /\ hooks' = hooks \o registrations(qk, conv)
          /\ config' = [config EXCEPT !.pnp_f_t = pnp_f_t, !.pnp_attn_t = pnp_attn_t]
    /\ x' = eps
    /\ i' = 0
    /\ pc' = "sample_loop"
    /\ UNCHANGED <<yaml_file, config_yaml, init_vars, step_vars, t, calls, out_vars>>

run_pnp ==
    /\ pc = "run_pnp"
    /\ LET pnp_f_t == injection_count(config.n_timesteps, config.pnp_f_t)
           pnp_attn_t == injection_count(config.n_timesteps, config.pnp_attn_t)
           qk == injection_timesteps(timesteps, pnp_attn_t)
           conv == injection_timesteps(timesteps, pnp_f_t)
       IN /\ conv_injection_t' = pnp_f_t
          /\ qk_injection_t' = pnp_attn_t
          /\ qk_injection_timesteps' = qk
          /\ conv_injection_timesteps' = conv
          /\ hooks' = hooks \o registrations(qk, conv)
    /\ x' = eps
    /\ i' = 0
    /\ pc' = "sample_loop"
    /\ UNCHANGED <<main_vars, init_vars, step_vars, t, calls, out_vars>>

\* ------------------------------------------------------------- pnp_utils
\* load_source_latents_t(t, latents_path): the file it reads, and its content
load_source_latents_t(tt, dir) ==
    [dir |-> dir,
     path |-> path_join(dir, latent_file(tt)),
     data |-> torch_load(path_join(dir, latent_file(tt)))]

\* register_time(model, t): the timestep stored in the injection modules
register_time(tt) == tt

\* the patched forward of a module: it injects the source features when the
\* module's timestep is in the schedule it was registered with
hook_injects(registered, kind, mt) ==
    \E h \in Range(registered) : h.kind = kind /\ mt \in Range(h.injection_schedule)

\* ------------------------------------------------- sample_loop, denoise_step
\* for i, t in enumerate(self.scheduler.timesteps)
sample_loop_next ==
    /\ pc = "sample_loop"
    /\ i < Len(timesteps)
    /\ t' = timesteps[i + 1]
    /\ pc' = "denoise_load"
    /\ UNCHANGED <<main_vars, init_vars, pnp_vars, step_vars, i, x, calls, out_vars>>

\* source latents of t are loaded and put in front of two copies of x
denoise_load ==
    /\ pc = "denoise_load"
    /\ LET source_latents == load_source_latents_t(t, latents_dir(config))
       IN /\ source' = source_latents
          /\ latent_model_input' = <<source_latents.data>> \o <<x, x>>
    /\ pc' = "denoise_register"
    /\ UNCHANGED <<main_vars, init_vars, pnp_vars, module_t, text_embed_input, unet_out,
                   noise_pred, loop_vars, out_vars>>

\* denoise_step without its register_time call
denoise_register_time_skipped ==
    /\ pc = "denoise_register"
    /\ pc' = "denoise_unet"
    /\ UNCHANGED <<main_vars, init_vars, pnp_vars, step_vars, loop_vars, out_vars>>

denoise_register_time ==
    /\ pc = "denoise_register"
    /\ module_t' = register_time(t)
    /\ pc' = "denoise_unet"
    /\ UNCHANGED <<main_vars, init_vars, pnp_vars, source, latent_model_input,
                   text_embed_input, unet_out, noise_pred, loop_vars, out_vars>>

\* torch.cat([pnp_guidance_embeds, text_embeds])
cat_embeds(guidance_embeds, embeds) == guidance_embeds \o embeds

\* the UNet is applied to the batch; its patched modules run
denoise_unet ==
    /\ pc = "denoise_unet"
    /\ text_embed_input' = cat_embeds(pnp_guidance_embeds, text_embeds)
    /\ \E sample \in [1..Len(latent_model_input) -> 0..MaxPred] :
          unet_out' = [sample |-> sample,
                       conv_injected |-> hook_injects(hooks, "conv", module_t),
                       attn_injected |-> hook_injects(hooks, "attention", module_t)]
    /\ pc' = "denoise_guidance"
    /\ UNCHANGED <<main_vars, init_vars, pnp_vars, source, module_t, latent_model_input,
                   noise_pred, loop_vars, out_vars>>

\* guidance with the chunks taken one position early
guidance_misaligned(sample, guidance_scale) ==
    LET noise_pred_uncond == sample[1]
        noise_pred_cond == sample[2]
    IN noise_pred_uncond + guidance_scale * (noise_pred_cond - noise_pred_uncond)

\* _, noise_pred_uncond, noise_pred_cond = noise_pred.chunk(3), then guidance
guidance(sample, guidance_scale) ==
    LET noise_pred_uncond == sample[2]
        noise_pred_cond == sample[3]
    IN noise_pred_uncond + guidance_scale * (noise_pred_cond - noise_pred_uncond)

denoise_guidance ==
    /\ pc = "denoise_guidance"
    /\ noise_pred' = guidance(unet_out.sample, config.guidance_scale)
    /\ pc' = "denoise_scheduler"
    /\ UNCHANGED <<main_vars, init_vars, pnp_vars, source, module_t, latent_model_input,
                   text_embed_input, unet_out, loop_vars, out_vars>>

\* the step's result dropped: self.denoise_step(x, t) without the assignment
denoise_return_dropped ==
    /\ pc = "denoise_scheduler"
    /\ calls' = Append(calls, [i |-> i, t |-> t, x_in |-> x,
                               x_out |-> scheduler_step(noise_pred, t, x),
                               source_dir |-> source.dir,
                               source_path |-> source.path,
                               conv_injected |-> unet_out.conv_injected,
                               attn_injected |-> unet_out.attn_injected])
    /\ i' = i + 1
    /\ source' = NoSource
    /\ latent_model_input' = <<>>
    /\ text_embed_input' = <<>>
    /\ unet_out' = NoOutput
    /\ noise_pred' = 0
    /\ pc' = "sample_loop"
    /\ UNCHANGED <<main_vars, init_vars, pnp_vars, module_t, t, x, out_vars>>

\* scheduler.step, the return (the step's locals go out of scope), and the
\* assignment x = self.denoise_step(x, t)
denoise_return ==
    /\ pc = "denoise_scheduler"
    /\ x' = scheduler_step(noise_pred, t, x)
    /\ calls' = Append(calls, [i |-> i, t |-> t, x_in |-> x,
                               x_out |-> scheduler_step(noise_pred, t, x),
                               source_dir |-> source.dir,
                               source_path |-> source.path,
                               conv_injected |-> unet_out.conv_injected,
                               attn_injected |-> unet_out.attn_injected])
    /\ i' = i + 1
    /\ source' = NoSource
    /\ latent_model_input' = <<>>
    /\ text_embed_input' = <<>>
    /\ unet_out' = NoOutput
    /\ noise_pred' = 0
    /\ pc' = "sample_loop"
    /\ UNCHANGED <<main_vars, init_vars, pnp_vars, module_t, t, out_vars>>

\* decode_latent reached from inside the loop body
sample_loop_decode_early ==
    /\ pc = "sample_loop"
    /\ decoded' = decoded + 1
    /\ pc' = "save"
    /\ UNCHANGED <<main_vars, init_vars, pnp_vars, step_vars, loop_vars, saved>>

\* the loop is exhausted: decode_latent(x)
sample_loop_decode ==
    /\ pc = "sample_loop"
    /\ i >= Len(timesteps)
    /\ decoded' = decoded + 1
    /\ pc' = "save"
    /\ UNCHANGED <<main_vars, init_vars, pnp_vars, step_vars, loop_vars, saved>>

\* f'{output_path}/output-{prompt}.png'
output_file(cfg) == cfg.output_path \o <<"/", "output-", cfg.prompt, ".png">>

sample_loop_save ==
    /\ pc = "save"
    /\ saved' = Append(saved, output_file(config))
    /\ pc' = "done"
    /\ UNCHANGED <<main_vars, init_vars, pnp_vars, step_vars, loop_vars, decoded>>

Next ==
    \/ main_load
    \/ main_prepare
    \/ PNP_init_version
    \/ PNP_init_models
    \/ PNP_init_data
    \/ PNP_init_embeds
    \/ run_pnp
    \/ sample_loop_next
    \/ denoise_load
    \/ denoise_register_time
    \/ denoise_unet
    \/ denoise_guidance
    \/ denoise_return
    \/ sample_loop_decode
    \/ sample_loop_save

Spec == Init /\ [][Next]_vars

\* the positions of the script
Positions ==
    {"main", "loaded", "construct", "ValueError", "init_models", "init_data",
     "init_embeds", "run_pnp", "sample_loop", "denoise_load", "denoise_register",
     "denoise_unet", "denoise_guidance", "denoise_scheduler", "save", "done"}
Terminated == pc \in {"done", "ValueError"}

\* every external call returns: a script that has not finished moves on from
\* its position (every step of Next changes pc, and a step of Next is enabled
\* exactly where the script has not finished)
Advance == ~Terminated /\ pc' \in Positions
FairSpec == Spec /\ WF_pc(Advance)

\* ================================================================ claims
LoopPcs ==
    {"sample_loop", "denoise_load", "denoise_register", "denoise_unet",
     "denoise_guidance", "denoise_scheduler"}
AfterLoopPcs == {"save", "done"}
InitPnpDone == pc \in LoopPcs \cup AfterLoopPcs

\* the entries of ts at the 0-based loop indices below k
EntriesBelow(ts, k) == {ts[j] : j \in {m \in 1..Len(ts) : m - 1 < k}}

IsPrefix(a, b) == Len(a) <= Len(b) /\ a = SubSeq(b, 1, Len(a))

\* C1: after init_pnp(conv_injection_t = k1, qk_injection_t = k2) the
\* convolution injection set is the first k1 entries of scheduler.timesteps
\* and the attention injection set the first k2; the step at loop index i
\* injects convolution features iff i < k1 and attention maps iff i < k2; and
\* after a step that did not inject, no later step injects.
C1_InjectionIsSchedulePrefix ==
    InitPnpDone =>
        /\ IsPrefix(conv_injection_timesteps, timesteps)
        /\ IsPrefix(qk_injection_timesteps, timesteps)
        /\ Range(conv_injection_timesteps) = EntriesBelow(timesteps, conv_injection_t)
        /\ Range(qk_injection_timesteps) = EntriesBelow(timesteps, qk_injection_t)
        /\ \A j \in 1..Len(calls) :
              /\ calls[j].conv_injected <=> (calls[j].i < conv_injection_t)
              /\ calls[j].attn_injected <=> (calls[j].i < qk_injection_t)
        /\ \A j \in 1..Len(calls) : \A m \in 1..Len(calls) :
              j < m =>
                 /\ ~calls[j].conv_injected => ~calls[m].conv_injected
                 /\ ~calls[j].attn_injected => ~calls[m].attn_injected

\* C1 witness: a run in which an injecting step was followed by a step that
\* injected attention maps but no convolution features.
C1_Witness ==
    /\ Len(calls) >= 2
    /\ calls[1].conv_injected /\ calls[1].attn_injected
    /\ ~calls[2].conv_injected /\ calls[2].attn_injected

\* C2: sample_loop calls denoise_step once per entry of scheduler.timesteps,
\* in the scheduler's order; the first step receives self.eps and every later
\* step receives the latent the step before it returned.
C2_SequentialLoop ==
    /\ Len(calls) <= Len(timesteps)
    /\ \A j \in 1..Len(calls) :
          /\ calls[j].i = j - 1
          /\ calls[j].t = timesteps[j]
          /\ calls[j].x_in = (IF j = 1 THEN eps ELSE calls[j - 1].x_out)
    /\ pc \in LoopPcs => x = (IF calls = <<>> THEN eps ELSE calls[Len(calls)].x_out)
    /\ pc \in AfterLoopPcs => Len(calls) = Len(timesteps)

\* C2 witness: a finished loop of at least two steps whose first step changed
\* the latent.
C2_Witness ==
    /\ pc = "done"
    /\ Len(calls) >= 2
    /\ calls[1].x_out # calls[1].x_in
    /\ calls[2].x_in = calls[1].x_out

\* C3: once run_pnp is entered the run finishes, after exactly n_timesteps
\* denoise steps; the latent is decoded once and the image saved once, both
\* after the last denoise step, and nothing runs after the save.
C3_SingleShotTermination ==
    /\ (pc = "run_pnp") ~> (pc = "done")
    /\ [](/\ decoded <= 1
          /\ Len(saved) <= decoded
          /\ Len(calls) <= Len(timesteps)
          /\ decoded = 1 => Len(calls) = yaml_file.n_timesteps
          /\ pc = "done" => /\ Len(calls) = yaml_file.n_timesteps
                            /\ decoded = 1
                            /\ saved = <<output_file(config)>>)
    /\ [][(pc \in AfterLoopPcs) => (calls' = calls /\ pc' \in AfterLoopPcs)]_vars

\* C3 witness: a finished run of the longest schedule.
C3_Witness ==
    /\ pc = "done"
    /\ Len(calls) = MaxSteps
    /\ decoded = 1
    /\ Len(saved) = 1

\* the value yaml.dump wrote for a key
Dumped(key) ==
    LET j == CHOOSE m \in 1..Len(config_yaml) : config_yaml[m][1] = key
    IN config_yaml[j][2]

ReadKeys ==
    {"latents_path", "image_path", "guidance_scale", "n_timesteps", "prompt", "output_path"}

\* C4: the configuration mapping is never modified after it is loaded: at
\* every later point it equals the file's content, and the values read by
\* the run equal those written to <output_path>/config.yaml.
C4_ConfigStatic ==
    /\ pc # "main" => config = yaml_file
    /\ pc \notin {"main", "loaded"} =>
          \A key \in ReadKeys : Dumped(key) = config[key] /\ Dumped(key) = yaml_file[key]

\* C4 witness: a denoise step has completed and the run is past get_data.
C4_Witness ==
    /\ pc = "done"
    /\ Len(calls) >= 1
    /\ Len(config_yaml) = Len(SortedKeys)

\* C5: the attention hook and then the convolution hook are registered once
\* each by init_pnp, after the scheduler timesteps are set and before the
\* first denoise step; the registrations do not change while the loop runs.
C5_HooksBeforeDenoising ==
    /\ ~InitPnpDone => hooks = <<>> /\ calls = <<>>
    /\ InitPnpDone =>
          /\ Len(hooks) = 2
          /\ hooks[1].kind = "attention"
          /\ hooks[2].kind = "conv"
          /\ Len(timesteps) = yaml_file.n_timesteps
    /\ hooks # <<>> => timesteps # <<>>

\* C5 witness: the UNet is about to run in a step after the first, with
\* both hooks in place.
C5_Witness ==
    /\ pc = "denoise_unet"
    /\ Len(calls) >= 1
    /\ Len(hooks) = 2

\* os.path.dirname and os.path.basename of a path with a directory part
DirName(p) == SubSeq(p, 1, RFind(p, "/") - 1)
FileName(p) == SubSeq(p, RFind(p, "/") + 1, Len(p))

\* the integer a sequence of decimal digits denotes
RECURSIVE ParseDigits(_)
ParseDigits(ds) ==
    IF ds = <<>> THEN 0
    ELSE 10 * ParseDigits(SubSeq(ds, 1, Len(ds) - 1))
         + (CHOOSE d \in 0..9 : Digits(d) = <<ds[Len(ds)]>>)

\* the timestep named by a latent file path .../noisy_latents_<t>.pt
TimestepOfPath(p) ==
    LET k == RFind(p, "noisy_latents_")
    IN ParseDigits(SubSeq(p, k + 1, Len(p) - 1))

\* C6: whenever the UNet is invoked in denoise_step(x, t), the timestep held
\* by the injection modules is t, the source latents at the head of the batch
\* are those of the file for t, and t is not a timestep of an earlier step.
C6_HooksSeeCurrentTimestep ==
    pc = "denoise_unet" =>
        /\ module_t = t
        /\ t = timesteps[i + 1]
        /\ TimestepOfPath(source.path) = t
        /\ latent_model_input[1] = source.data
        /\ source.data = torch_load(source.path)
        /\ DirName(source.path) = source.dir
        /\ \A j \in 1..Len(calls) : calls[j].t # module_t

\* C6 witness: the UNet is invoked in a step after the first.
C6_Witness ==
    /\ pc = "denoise_unet"
    /\ i >= 1
    /\ module_t = timesteps[i + 1]

\* the per-image directory each explored image_path must give
ExpectedDir(image_path) ==
    IF image_path = <<"d", "/", "a", ".", "p">> THEN <<"l", "/", "a">>
    ELSE IF image_path = <<"a", ".", "b", ".", "p">> THEN <<"l", "/", "a", ".", "b">>
    ELSE <<"l", "/", "a">>

\* C7: the initial latent is the file noisy_latents_<t0>.pt for the first
\* timestep the loop processes, in the directory join(latents_path, image
\* stem), and every denoise step loads its source latents from that same
\* directory.
C7_CachedLatentsConsistent ==
    eps_path # <<>> =>
        /\ FileName(eps_path) = <<"noisy_latents_">> \o Digits(timesteps[1]) \o <<".pt">>
        /\ DirName(eps_path) = ExpectedDir(yaml_file.image_path)
        /\ calls # <<>> => TimestepOfPath(eps_path) = calls[1].t
        /\ \A j \in 1..Len(calls) : calls[j].source_dir = DirName(eps_path)

\* C7 witness: a schedule of several timesteps, for an image path with a
\* dot in its directory part, after two steps have loaded source latents.
C7_Witness ==
    /\ Len(calls) >= 2
    /\ yaml_file.image_path = <<"d", ".", "x", "/", "a">>
    /\ calls[2].source_dir = DirName(eps_path)
    /\ TimestepOfPath(eps_path) # calls[2].t

\* k is the truncation toward zero of num / FracDen
IsTruncation(k, num) ==
    IF num >= 0
    THEN k >= 0 /\ k * FracDen <= num /\ num < (k + 1) * FracDen
    ELSE k <= 0 /\ k * FracDen >= num /\ num > (k - 1) * FracDen

\* C8: the injection counts are the configured fractions of n_timesteps
\* truncated toward zero; a count k >= 0 selects min(k, n) timesteps and a
\* negative count selects none; the set of the smaller count is contained in
\* the set of the larger.
C8_InjectionCountClamped ==
    InitPnpDone =>
        LET n == config.n_timesteps
            convs == Range(conv_injection_timesteps)
            qks == Range(qk_injection_timesteps)
        IN /\ IsTruncation(conv_injection_t, n * config.pnp_f_t)
           /\ IsTruncation(qk_injection_t, n * config.pnp_attn_t)
           /\ Cardinality(convs) = (IF conv_injection_t >= 0 THEN Min(conv_injection_t, n) ELSE 0)
           /\ Cardinality(qks) = (IF qk_injection_t >= 0 THEN Min(qk_injection_t, n) ELSE 0)
           /\ Len(conv_injection_timesteps) = Cardinality(convs)
           /\ Len(qk_injection_timesteps) = Cardinality(qks)
           /\ conv_injection_t <= qk_injection_t => convs \subseteq qks
           /\ qk_injection_t <= conv_injection_t => qks \subseteq convs

\* C8 witness: a negative count next to a count larger than the schedule,
\* on a schedule a Python slice with that negative count would not empty.
C8_Witness ==
    /\ InitPnpDone
    /\ conv_injection_t < 0
    /\ Len(timesteps) + conv_injection_t > 0
    /\ qk_injection_t > Len(timesteps)
    /\ conv_injection_timesteps = <<>>
    /\ qk_injection_timesteps = timesteps

ModelKeys ==
    {"stabilityai/stable-diffusion-2-1-base", "stabilityai/stable-diffusion-2-base",
     "/home/heyi/llm/stable-diffusion-v1-5", "/home/heyi/llm/stable-diffusion-xl-base-1.0/"}

NothingLoaded ==
    /\ timesteps = <<>>
    /\ eps_path = <<>>
    /\ eps = NoLatent
    /\ text_embeds = <<>>
    /\ pnp_guidance_embeds = <<>>
    /\ hooks = <<>>
    /\ calls = <<>>
    /\ decoded = 0
    /\ saved = <<>>

\* C9: an sd_version outside the four supported ones raises ValueError with
\* no model, scheduler, latent or hook in place, and the run goes no further;
\* each supported version passes the check with one of the four model keys.
C9_UnsupportedVersionRaises ==
    /\ yaml_file.sd_version \notin SupportedVersions =>
          /\ pc \in {"main", "loaded", "construct", "ValueError"}
          /\ model_key = None
          /\ NothingLoaded
    /\ yaml_file.sd_version \in SupportedVersions =>
          /\ pc # "ValueError"
          /\ pc \notin {"main", "loaded", "construct"} => model_key \in ModelKeys
    /\ pc = "ValueError" => NothingLoaded

\* C9 witness: the constructor has raised.
C9_Witness ==
    /\ pc = "ValueError"
    /\ config.sd_version = "3.0"

\* C10: the UNet batch is [source latent, x, x] against the embeddings
\* [empty prompt, negative prompt, prompt]; the guided prediction is
\* uncond + guidance_scale * (cond - uncond) of the second and third
\* predictions, the conditional one at scale 1 and the unconditional at 0.
C10_BatchAlignedGuidance ==
    /\ pc \in {"denoise_guidance", "denoise_scheduler"} =>
          /\ latent_model_input = <<source.data, x, x>>
          /\ text_embed_input =
                <<encode_prompt(""), encode_prompt(config.negative_prompt),
                  encode_prompt(config.prompt)>>
          /\ Len(unet_out.sample) = 3
    /\ pc = "denoise_scheduler" =>
          LET uncond == unet_out.sample[2]
              cond == unet_out.sample[3]
          IN /\ noise_pred = uncond + config.guidance_scale * (cond - uncond)
             /\ config.guidance_scale = 1 => noise_pred = cond
             /\ config.guidance_scale = 0 => noise_pred = uncond

\* C10 witness: guidance at scale 1 where the unconditional prediction
\* differs from both the source entry's and the conditional one.
C10_Witness ==
    /\ pc = "denoise_scheduler"
    /\ config.guidance_scale = 1
    /\ unet_out.sample[1] # unet_out.sample[2]
    /\ unet_out.sample[2] # unet_out.sample[3]
    /\ noise_pred = unet_out.sample[3]

====
